---- MODULE Spec2Model ----
(***************************************************************************)
(* Model of src/main.py: the ingestion API (POST /ingest, GET /status) and *)
(* the background dispatcher process_batches.                               *)
(*                                                                         *)
(* The handlers ingest and status contain no await, so on the asyncio       *)
(* event loop each runs as one atomic step.  process_batches is cut at its  *)
(* awaits (lines 121, 124, 145): the code between two awaits is one step.   *)
(* Time is an integer clock, now, that never runs backwards; a sleep ends   *)
(* at or after its deadline.  uuid4 identifiers are modelled as fresh       *)
(* values: an ingestion's id is its position in the store, a batch's id is  *)
(* the pair <<ingestion id, position in the ingestion>>.  What a handler    *)
(* sends back is an operator of the state it runs in (IngestReply,          *)
(* StatusReply); a request that changes no program state is a step that     *)
(* leaves every variable unchanged.  Nothing between lines 119 and 155 can *)
(* raise (the store holds every queued batch's ingestion, the processing   *)
(* is a sleep), so in Spec the handler of lines 157-159 has no step; the   *)
(* lock of line 40 is never contended, all its users running on the one    *)
(* event loop.                                                             *)
(*                                                                         *)
(* Spec is the program with submissions in a window of a bounded clock.    *)
(* SpecIntake takes one submission of any identifier list, SpecIdle takes  *)
(* single-identifier submissions at any time.  SpecSteps runs ingest line  *)
(* by line, with the event loop held until it returns.  SpecLive adds the  *)
(* scheduling of the event loop (a task whose sleep is over is resumed)    *)
(* and a clock that outlasts the draining of the queue.  SpecStream lets   *)
(* submissions arrive for ever, on a clock kept relative to now.           *)
(* SpecFaulty lets the downstream call raise, so that the handler of       *)
(* lines 157-159 runs.                                                     *)
(***************************************************************************)
EXTENDS Integers, Sequences, FiniteSets, TLC

VARIABLES
    ingestion_store,  \* main.py:38   ingestion id -> [status, batches]
    batch_queue,      \* main.py:39   sequence of <<priority_value, created_time, batch_id>>
    now,              \* time.time()
    pc,               \* where process_batches is suspended
    wake,             \* deadline of the sleep process_batches is suspended in
    last_processed,   \* main.py:116  local of process_batches
    batch,            \* main.py:132  batch held by process_batches, NoBatch if none
    ingest_call,      \* main.py:57-74 locals of the ingest call that is running, NoCall if none
    dispatched_at,    \* history: the time at which line 132 last dequeued a batch
    failed            \* history: the batches whose processing raised

vars == <<ingestion_store, batch_queue, now, pc, wake, last_processed, batch,
          ingest_call, dispatched_at, failed>>

----------------------------------------------------------------------------
\* Program constants

BATCH_SIZE == 3
RATE_LIMIT_SECONDS == 5
PROCESS_DELAY == 2
EMPTY_BACKOFF == 1
\* asyncio.sleep(1) of the exception handler
ERROR_BACKOFF == 1
MAX_ID == 1000000007
MIN_ID == 1

HIGH == "HIGH"
MEDIUM == "MEDIUM"
LOW == "LOW"
Priority == {HIGH, MEDIUM, LOW}

YET_TO_START == "yet_to_start"
TRIGGERED == "triggered"
COMPLETED == "completed"
BatchStatus == {YET_TO_START, TRIGGERED, COMPLETED}

\* the ranks the other way round
priority_map_reversed(p) == CASE p = HIGH -> 3 [] p = MEDIUM -> 2 [] p = LOW -> 1

priority_map(p) == CASE p = HIGH -> 1 [] p = MEDIUM -> 2 [] p = LOW -> 3

----------------------------------------------------------------------------
\* Bounds of the model

\* accepted submissions in one run
MaxIngestions == 2
\* longest identifier list submitted
MaxIds == 4
\* clock ticks explored after start-up
Horizon == 9
\* how late a sleep may end after its deadline
MaxLag == 1
\* clock ticks after start-up in which submissions arrive
SubmitWindow == 3

\* time.time() is seconds since 1970, so at start-up it exceeds the rate limit
ClockStart == RATE_LIMIT_SECONDS
MaxTime == ClockStart + Horizon

NoBatch == <<0, 0>>

\* last_processed = 0: no batch has been processed yet
NoTime == 0

----------------------------------------------------------------------------
\* Request validation (IngestRequest.validate_ids)

\* 0 <= id_ where the code has 1 <= id_
validate_ids_from_zero(v) ==
    /\ v # <<>>
    /\ \A i \in 1..Len(v) : MIN_ID - 1 <= v[i] /\ v[i] <= MAX_ID

validate_ids(v) ==
    /\ v # <<>>
    /\ \A i \in 1..Len(v) : MIN_ID <= v[i] /\ v[i] <= MAX_ID

----------------------------------------------------------------------------
\* ingest: the partition of ids into batches

Min(a, b) == IF a <= b THEN a ELSE b

\* the count rounded down: a last, shorter chunk is dropped
NumChunks_floor(ids) == Len(ids) \div BATCH_SIZE

\* range(0, len(ids), BATCH_SIZE), as the 1-based count of chunks
NumChunks(ids) == (Len(ids) + BATCH_SIZE - 1) \div BATCH_SIZE

\* ids[i:i + BATCH_SIZE] for the k-th chunk (i = (k-1) * BATCH_SIZE)
Chunk(ids, k) ==
    SubSeq(ids, (k - 1) * BATCH_SIZE + 1, Min(k * BATCH_SIZE, Len(ids)))

batch_info(ingestion_id, k, ids, priority, created_time) ==
    [ batch_id     |-> <<ingestion_id, k>>,
      ids          |-> Chunk(ids, k),
      status       |-> YET_TO_START,
      ingestion_id |-> ingestion_id,
      created_time |-> created_time,
      priority     |-> priority ]

MakeBatches(ingestion_id, ids, priority, created_time) ==
    [ k \in 1..NumChunks(ids) |->
        batch_info(ingestion_id, k, ids, priority, created_time) ]

QueueEntry(b) == <<priority_map(b.priority), b.created_time, b.batch_id>>

----------------------------------------------------------------------------
\* HTTP replies.  code 422 is the validation fault FastAPI sends when a
\* pydantic validator raises; 404 is raised by status; 200 is a normal return.

OK == 200
UNPROCESSABLE == 422
NOT_FOUND == 404

ClientFault(code) == 400 <= code /\ code <= 499
ServerFault(code) == 500 <= code /\ code <= 599

NoId == 0

\* no ingest call is running
NoCall ==
    [ ingestion_id |-> NoId, ids |-> <<>>, priority |-> "",
      created_time |-> NoTime, batches |-> <<>> ]

Reply(code, ingestion_id, st, batches) ==
    [ code |-> code, ingestion_id |-> ingestion_id,
      status |-> st, batches |-> batches ]

----------------------------------------------------------------------------
\* POST /ingest

RECURSIVE AppendAll(_, _)
AppendAll(q, entries) ==
    IF entries = <<>> THEN q
    ELSE AppendAll(Append(q, Head(entries)), Tail(entries))

\* the id of a batch sent back in place of the ingestion's
IngestReply_batch_id(ids) ==
    IF ~validate_ids(ids)
    THEN Reply(UNPROCESSABLE, NoId, "", <<>>)
    ELSE Reply(OK, Len(ingestion_store) + 2, "", <<>>)

\* what ingest sends back for ids in the current state
IngestReply(ids) ==
    IF ~validate_ids(ids)
    THEN Reply(UNPROCESSABLE, NoId, "", <<>>)
    ELSE Reply(OK, Len(ingestion_store) + 1, "", <<>>)

ingest(ids, priority) ==
    IF ~validate_ids(ids)
    THEN UNCHANGED vars
    ELSE LET ingestion_id == Len(ingestion_store) + 1
             created_time == now
             batches == MakeBatches(ingestion_id, ids, priority, created_time)
         IN  /\ batch_queue' =
                   AppendAll(batch_queue,
                             [k \in 1..Len(batches) |-> QueueEntry(batches[k])])
             /\ ingestion_store' =
                   Append(ingestion_store,
                          [status |-> YET_TO_START, batches |-> batches])
             /\ UNCHANGED <<now, pc, wake, last_processed, batch, ingest_call,
                            dispatched_at, failed>>

----------------------------------------------------------------------------
\* GET /status/{ingestion_id}

\* "triggered" only while a unit is in flight
overall_status_in_flight(batch_statuses) ==
    IF \E i \in 1..Len(batch_statuses) : batch_statuses[i] = TRIGGERED
    THEN TRIGGERED
    ELSE IF \A i \in 1..Len(batch_statuses) : batch_statuses[i] = COMPLETED
    THEN COMPLETED
    ELSE YET_TO_START

\* any() where the code has all()
overall_status_any(batch_statuses) ==
    IF \E i \in 1..Len(batch_statuses) : batch_statuses[i] = TRIGGERED
    THEN TRIGGERED
    ELSE IF \E i \in 1..Len(batch_statuses) : batch_statuses[i] = COMPLETED
    THEN COMPLETED
    ELSE YET_TO_START

overall_status(batch_statuses) ==
    IF \A i \in 1..Len(batch_statuses) : batch_statuses[i] = YET_TO_START
    THEN YET_TO_START
    ELSE IF \A i \in 1..Len(batch_statuses) : batch_statuses[i] = COMPLETED
    THEN COMPLETED
    ELSE TRIGGERED

\* what status returns for ingestion_id when the store is store
StatusReplyIn(store, ingestion_id) ==
    IF ingestion_id \notin DOMAIN store
    THEN Reply(NOT_FOUND, ingestion_id, "", <<>>)
    ELSE LET ingestion == store[ingestion_id]
             batch_statuses ==
                 [k \in 1..Len(ingestion.batches) |-> ingestion.batches[k].status]
         IN  Reply(OK, ingestion_id, overall_status(batch_statuses),
                   [k \in 1..Len(ingestion.batches) |->
                       [ batch_id |-> ingestion.batches[k].batch_id,
                         ids      |-> ingestion.batches[k].ids,
                         status   |-> ingestion.batches[k].status ]])

\* what status returns for ingestion_id in the current state
StatusReply(ingestion_id) == StatusReplyIn(ingestion_store, ingestion_id)

\* the aggregate written back into the store entry's "status"
status_cached(ingestion_id) ==
    /\ ingestion_store' =
          IF ingestion_id \in DOMAIN ingestion_store
          THEN [ingestion_store EXCEPT
                   ![ingestion_id].status = StatusReply(ingestion_id).status]
          ELSE ingestion_store
    /\ UNCHANGED <<batch_queue, now, pc, wake, last_processed, batch,
                   ingest_call, dispatched_at, failed>>

\* status reads ingestion_store and assigns to nothing but its own locals;
\* what it sends back is StatusReply(ingestion_id)
status(ingestion_id) == UNCHANGED vars

----------------------------------------------------------------------------
\* process_batches

\* the oldest entry first, whatever its tier
KeyLess_oldest_first(x, y) == x[2] < y[2]

\* within a tier the newest entry first
KeyLess_newest_first(x, y) == x[1] < y[1] \/ (x[1] = y[1] /\ x[2] > y[2])

\* key=lambda x: (x[0], x[1])
KeyLess(x, y) == x[1] < y[1] \/ (x[1] = y[1] /\ x[2] < y[2])

\* sorted() is stable: the entries it puts before the i-th are those of
\* smaller key and the earlier ones of equal key
Before(q, i) ==
    Cardinality({ j \in 1..Len(q) :
                    KeyLess(q[j], q[i]) \/ (~KeyLess(q[i], q[j]) /\ j < i) })

\* the queue left in arrival order
sorted_fifo(q) == q

sorted(q) ==
    [p \in 1..Len(q) |-> q[CHOOSE i \in 1..Len(q) : Before(q, i) = p - 1]]

\* the loop without its batch_id test: every batch of the ingestion is marked
SetStatus_all(store, batch_id, s) ==
    LET ingestion_id == batch_id[1]
    IN  [store EXCEPT ![ingestion_id].batches =
            [k \in 1..Len(@) |-> [@[k] EXCEPT !.status = s]]]

\* the loop without its batch_id test but with its break: the first batch of
\* the ingestion is marked, whichever batch was dequeued
SetStatus_first(store, batch_id, s) ==
    LET ingestion_id == batch_id[1]
    IN  [store EXCEPT ![ingestion_id].batches[1].status = s]

\* for b in ingestion["batches"]: if b["batch_id"] == batch["batch_id"]: ...
SetStatus(store, batch_id, s) ==
    LET ingestion_id == batch_id[1]
    IN  [store EXCEPT ![ingestion_id].batches =
            [k \in 1..Len(@) |->
                IF @[k].batch_id = batch_id THEN [@[k] EXCEPT !.status = s]
                ELSE @[k]]]

\* batch_queue[0] read where the code has popleft(): the entry stays queued
QueueCheck_peek(st, q, lp) ==
    IF q = <<>>
    THEN /\ pc' = "empty_sleep"
         /\ wake' = now + EMPTY_BACKOFF
         /\ ingestion_store' = st
         /\ batch_queue' = q
         /\ last_processed' = lp
         /\ UNCHANGED <<batch, dispatched_at>>
    ELSE LET sorted_batches == sorted(q)
             popped == Head(sorted_batches)
         IN  /\ batch_queue' = sorted_batches
             /\ batch' = popped[3]
             /\ ingestion_store' = SetStatus(st, popped[3], TRIGGERED)
             /\ dispatched_at' = now
             /\ pc' = "process_sleep"
             /\ wake' = now + PROCESS_DELAY
             /\ last_processed' = lp

\* last_processed set on the empty path too: an empty cycle takes a slot
QueueCheck_takes_slot(st, q, lp) ==
    IF q = <<>>
    THEN /\ pc' = "empty_sleep"
         /\ wake' = now + EMPTY_BACKOFF
         /\ ingestion_store' = st
         /\ batch_queue' = q
         /\ last_processed' = now
         /\ UNCHANGED <<batch, dispatched_at>>
    ELSE LET sorted_batches == sorted(q)
             popped == Head(sorted_batches)
         IN  /\ batch_queue' = Tail(sorted_batches)
             /\ batch' = popped[3]
             /\ ingestion_store' = SetStatus(st, popped[3], TRIGGERED)
             /\ dispatched_at' = now
             /\ pc' = "process_sleep"
             /\ wake' = now + PROCESS_DELAY
             /\ last_processed' = lp

\* lines 123-145, entered with the store st, the queue q and last_processed lp
QueueCheck(st, q, lp) ==
    IF q = <<>>
    THEN /\ pc' = "empty_sleep"
         /\ wake' = now + EMPTY_BACKOFF
         /\ ingestion_store' = st
         /\ batch_queue' = q
         /\ last_processed' = lp
         /\ UNCHANGED <<batch, dispatched_at>>
    ELSE LET sorted_batches == sorted(q)
             popped == Head(sorted_batches)
         IN  /\ batch_queue' = Tail(sorted_batches)
             /\ batch' = popped[3]
             /\ ingestion_store' = SetStatus(st, popped[3], TRIGGERED)
             /\ dispatched_at' = now
             /\ pc' = "process_sleep"
             /\ wake' = now + PROCESS_DELAY
             /\ last_processed' = lp

\* the loop without lines 120-121
LoopTop_no_wait(st, q, lp) == QueueCheck(st, q, lp)

\* lines 119-121, then on to line 123 when there is nothing to wait for
LoopTop(st, q, lp) ==
    LET current_time == now
    IN  IF current_time - lp < RATE_LIMIT_SECONDS
        THEN /\ pc' = "rate_sleep"
             /\ wake' = now + (RATE_LIMIT_SECONDS - (current_time - lp))
             /\ ingestion_store' = st
             /\ batch_queue' = q
             /\ last_processed' = lp
             /\ UNCHANGED <<batch, dispatched_at>>
        ELSE QueueCheck(st, q, lp)

\* the task created by startup_event runs its first iteration
Start ==
    /\ pc = "start"
    /\ LoopTop(ingestion_store, batch_queue, last_processed)
    /\ UNCHANGED <<now, ingest_call, failed>>

\* asyncio.sleep of line 121 ends: on to the queue check of line 123
AfterRateSleep ==
    /\ pc = "rate_sleep"
    /\ now >= wake
    /\ QueueCheck(ingestion_store, batch_queue, last_processed)
    /\ UNCHANGED <<now, ingest_call, failed>>

\* asyncio.sleep(1) of line 124 ends: continue, back to line 119
AfterEmptySleep ==
    /\ pc = "empty_sleep"
    /\ now >= wake
    /\ LoopTop(ingestion_store, batch_queue, last_processed)
    /\ UNCHANGED <<now, ingest_call, failed>>

\* lines 149-153 left out: the batch is never marked COMPLETED
AfterProcessing_unmarked ==
    /\ pc = "process_sleep"
    /\ now >= wake
    /\ LoopTop(ingestion_store, batch_queue, now)
    /\ UNCHANGED <<now, ingest_call, failed>>

\* last_processed set to the time the batch was dequeued
AfterProcessing_cycle_start ==
    /\ pc = "process_sleep"
    /\ now >= wake
    /\ LoopTop(SetStatus(ingestion_store, batch, COMPLETED), batch_queue,
               dispatched_at)
    /\ UNCHANGED <<now, ingest_call, failed>>

\* asyncio.sleep(PROCESS_DELAY) of line 145 ends: lines 146-155, then line 119
AfterProcessing ==
    /\ pc = "process_sleep"
    /\ now >= wake
    /\ LoopTop(SetStatus(ingestion_store, batch, COMPLETED), batch_queue, now)
    /\ UNCHANGED <<now, ingest_call, failed>>

\* the clock advances; a sleeping dispatcher is woken at most MaxLag late
Tick ==
    /\ now < MaxTime
    /\ now < wake + MaxLag
    /\ now' = now + 1
    /\ UNCHANGED <<ingestion_store, batch_queue, pc, wake, last_processed,
                   batch, ingest_call, dispatched_at, failed>>

----------------------------------------------------------------------------
\* Requests

\* the empty list and the identifier lists 1..n that end in a batch of one
CountingIds ==
    { <<>> } \cup
    { [i \in 1..n |-> i] : n \in {m \in 1..MaxIds : m % BATCH_SIZE = 1} }

\* every identifier list over vals of length at most MaxIds
RECURSIVE SeqsUpTo(_, _)
SeqsUpTo(vals, n) ==
    IF n = 0 THEN { <<>> }
    ELSE LET shorter == SeqsUpTo(vals, n - 1)
         IN  shorter \cup { Append(s, v) : s \in shorter, v \in vals }

\* the lists of 1 and 10^9+7, and those lists with 0 or 10^9+8 put in front
\* of them or after them
AnyIds ==
    LET inRange == SeqsUpTo({MIN_ID, MAX_ID}, MaxIds)
        shorter == SeqsUpTo({MIN_ID, MAX_ID}, MaxIds - 1)
        outside == {MIN_ID - 1, MAX_ID + 1}
    IN  inRange \cup { <<x>> \o t : x \in outside, t \in shorter }
                \cup { Append(t, x) : x \in outside, t \in shorter }

\* a request with ids from requests, within the submission window; a valid
\* one arrives only while room holds
Submit(requests, room) ==
    /\ now <= ClockStart + SubmitWindow
    /\ \E ids \in requests, priority \in Priority :
          /\ validate_ids(ids) => room
          /\ ingest(ids, priority)

QueryIds == 1..(MaxIngestions + 1)

Query ==
    \E ingestion_id \in QueryIds : status(ingestion_id)

Init ==
    /\ ingestion_store = <<>>
    /\ batch_queue = <<>>
    /\ now = ClockStart
    /\ pc = "start"
    /\ wake = ClockStart
    /\ last_processed = NoTime
    /\ batch = NoBatch
    /\ ingest_call = NoCall
    /\ dispatched_at = NoTime
    /\ failed = {}

Dispatcher == Start \/ AfterRateSleep \/ AfterEmptySleep \/ AfterProcessing

Next ==
    \/ Submit(CountingIds, Len(ingestion_store) < MaxIngestions)
    \/ Query
    \/ Dispatcher
    \/ Tick

Spec == Init /\ [][Next]_vars

\* one submission with any identifier list, then the dispatcher drains it
NextIntake ==
    \/ Submit(AnyIds, ingestion_store = <<>>)
    \/ Query
    \/ Dispatcher
    \/ Tick

SpecIntake == Init /\ [][NextIntake]_vars

\* requests of a single identifier, arriving at any time: the dispatcher is
\* met idle, waiting and processing
SubmitAnyTime ==
    \E priority \in Priority :
        /\ Len(ingestion_store) < MaxIngestions
        /\ ingest(<<MIN_ID>>, priority)

NextIdle ==
    \/ SubmitAnyTime
    \/ Query
    \/ Dispatcher
    \/ Tick

SpecIdle == Init /\ [][NextIdle]_vars

----------------------------------------------------------------------------
\* Scheduling: the event loop resumes a task whose sleep is over, and time
\* passes.  The clock of these runs stops only after the longest time the
\* submissions the bounds admit can take to drain.

\* the longest one cycle takes: processing, then the rate wait, each late
CycleTime == PROCESS_DELAY + MaxLag + RATE_LIMIT_SECONDS + MaxLag

\* the most units the submissions of one run hold
MaxUnits == MaxIngestions * ((MaxIds + BATCH_SIZE - 1) \div BATCH_SIZE)

DrainTime ==
    ClockStart + SubmitWindow + EMPTY_BACKOFF + MaxLag + MaxUnits * CycleTime

TickLive ==
    /\ now < DrainTime
    /\ now < wake + MaxLag
    /\ now' = now + 1
    /\ UNCHANGED <<ingestion_store, batch_queue, pc, wake, last_processed,
                   batch, ingest_call, dispatched_at, failed>>

NextLive ==
    \/ Submit(CountingIds, Len(ingestion_store) < MaxIngestions)
    \/ Query
    \/ Dispatcher
    \/ TickLive

SpecLive ==
    Init /\ [][NextLive]_vars /\ WF_vars(Dispatcher) /\ WF_vars(TickLive)

----------------------------------------------------------------------------
\* Submissions that never stop.  The program reads the times it holds only
\* through their differences (lines 120-121) and their order (line 128), so
\* here the clock is kept as a moving frame: now stands still and a tick
\* moves every held time one second into the past.  A time more than
\* RATE_LIMIT_SECONDS old is kept as RATE_LIMIT_SECONDS old: the test of
\* line 120 reads it the same, and the stable sort of line 128 keeps entries
\* of equal key in the order of their arrival.  The store never forgets a
\* submission (line 79 is its only assignment); the dispatcher reads a
\* submission for the last time when it marks its last unit COMPLETED, so
\* once the store holds MaxIngestions submissions a new one takes the place
\* of one whose units are all COMPLETED.

ShiftTime(t) ==
    IF t - 1 < now - RATE_LIMIT_SECONDS THEN now - RATE_LIMIT_SECONDS ELSE t - 1

TickStream ==
    /\ now < wake + MaxLag
    /\ wake' = wake - 1
    /\ last_processed' = ShiftTime(last_processed)
    /\ dispatched_at' = ShiftTime(dispatched_at)
    /\ batch_queue' =
          [i \in 1..Len(batch_queue) |->
              <<batch_queue[i][1], ShiftTime(batch_queue[i][2]),
                batch_queue[i][3]>>]
    /\ ingestion_store' =
          [i \in 1..Len(ingestion_store) |->
              [ingestion_store[i] EXCEPT !.batches =
                  [k \in 1..Len(@) |->
                      [@[k] EXCEPT !.created_time = ShiftTime(@)]]]]
    /\ UNCHANGED <<now, pc, batch, ingest_call, failed>>

\* ingest, the new submission stored at ingestion_id
ingest_stream(ids, priority) ==
    IF ~validate_ids(ids) THEN UNCHANGED vars
    ELSE IF Len(ingestion_store) < MaxIngestions THEN ingest(ids, priority)
    ELSE \E ingestion_id \in 1..Len(ingestion_store) :
            LET created_time == now
                batches == MakeBatches(ingestion_id, ids, priority, created_time)
            IN  /\ \A k \in 1..Len(ingestion_store[ingestion_id].batches) :
                      ingestion_store[ingestion_id].batches[k].status = COMPLETED
                /\ batch_queue' =
                      AppendAll(batch_queue,
                                [k \in 1..Len(batches) |-> QueueEntry(batches[k])])
                /\ ingestion_store' =
                      [ingestion_store EXCEPT ![ingestion_id] =
                          [status |-> YET_TO_START, batches |-> batches]]
                /\ UNCHANGED <<now, pc, wake, last_processed, batch,
                               ingest_call, dispatched_at, failed>>

SubmitStream ==
    \E ids \in CountingIds, priority \in Priority : ingest_stream(ids, priority)

NextStream ==
    \/ SubmitStream
    \/ Query
    \/ Dispatcher
    \/ TickStream

SpecStream ==
    Init /\ [][NextStream]_vars /\ WF_vars(Dispatcher) /\ WF_vars(TickStream)

----------------------------------------------------------------------------
\* A downstream call that fails.  The call of lines 145-146 is a stand-in
\* that always returns; here it may raise instead, which the handler of
\* lines 157-159 catches.  The submissions are those the store has
\* room for, and the clock is the moving frame of TickStream.

\* the failed unit is put back in the queue as Pending
ProcessingFails_requeue ==
    /\ pc = "process_sleep"
    /\ pc' = "error_sleep"
    /\ wake' = now + ERROR_BACKOFF
    /\ failed' = failed \cup {batch}
    /\ ingestion_store' = SetStatus(ingestion_store, batch, YET_TO_START)
    /\ batch_queue' =
          Append(batch_queue,
                 QueueEntry(ingestion_store[batch[1]].batches[batch[2]]))
    /\ UNCHANGED <<now, last_processed, batch, ingest_call, dispatched_at>>

\* the call of line 145 raises: lines 149-155 are skipped, line 158 logs and
\* line 159 sleeps
ProcessingFails ==
    /\ pc = "process_sleep"
    /\ pc' = "error_sleep"
    /\ wake' = now + ERROR_BACKOFF
    /\ failed' = failed \cup {batch}
    /\ UNCHANGED <<ingestion_store, batch_queue, now, last_processed, batch,
                   ingest_call, dispatched_at>>

\* asyncio.sleep(1) of line 159 ends: the next iteration, line 119
AfterErrorSleep ==
    /\ pc = "error_sleep"
    /\ now >= wake
    /\ LoopTop(ingestion_store, batch_queue, last_processed)
    /\ UNCHANGED <<now, ingest_call, failed>>

DispatcherFaulty == Dispatcher \/ AfterErrorSleep

NextFaulty ==
    \/ Submit(CountingIds, Len(ingestion_store) < MaxIngestions)
    \/ Query
    \/ DispatcherFaulty
    \/ ProcessingFails
    \/ TickStream

SpecFaulty ==
    /\ Init /\ [][NextFaulty]_vars
    /\ WF_vars(DispatcherFaulty) /\ WF_vars(TickStream)

----------------------------------------------------------------------------
\* ingest statement by statement, and who may run meanwhile

\* def ingest where the code has async def ingest: the call runs in a worker
\* thread beside the event loop, which it never holds
LoopHeld_threadpool == FALSE

\* ingest is a coroutine without an await: from its call to its return it
\* keeps the event loop, and no other handler or task is resumed
LoopHeld == ingest_call # NoCall

\* lines 57-61: the locals of a call that passed validation
IngestBegin(ids, priority) ==
    /\ ingest_call = NoCall
    /\ validate_ids(ids)
    /\ ingest_call' = [ ingestion_id |-> Len(ingestion_store) + 1,
                        ids          |-> ids,
                        priority     |-> priority,
                        created_time |-> now,
                        batches      |-> <<>> ]
    /\ UNCHANGED <<ingestion_store, batch_queue, now, pc, wake, last_processed,
                   batch, dispatched_at, failed>>

\* lines 63-77: one iteration of the for loop
IngestIteration ==
    /\ ingest_call # NoCall
    /\ Len(ingest_call.batches) < NumChunks(ingest_call.ids)
    /\ LET k == Len(ingest_call.batches) + 1
           b == batch_info(ingest_call.ingestion_id, k, ingest_call.ids,
                           ingest_call.priority, ingest_call.created_time)
       IN  /\ ingest_call' = [ingest_call EXCEPT !.batches = Append(@, b)]
           /\ batch_queue' = Append(batch_queue, QueueEntry(b))
    /\ UNCHANGED <<ingestion_store, now, pc, wake, last_processed, batch,
                   dispatched_at, failed>>

\* lines 79-84: the submission is put in the store and the call returns
IngestReturn ==
    /\ ingest_call # NoCall
    /\ Len(ingest_call.batches) = NumChunks(ingest_call.ids)
    /\ ingestion_store' =
          Append(ingestion_store,
                 [status |-> YET_TO_START, batches |-> ingest_call.batches])
    /\ ingest_call' = NoCall
    /\ UNCHANGED <<batch_queue, now, pc, wake, last_processed, batch,
                   dispatched_at, failed>>

\* a request arrives: a rejected one never reaches ingest
SubmitStep ==
    /\ ~LoopHeld
    /\ now <= ClockStart + SubmitWindow
    /\ \E ids \in CountingIds, priority \in Priority :
          IF validate_ids(ids)
          THEN Len(ingestion_store) < MaxIngestions /\ IngestBegin(ids, priority)
          ELSE UNCHANGED vars

QueryStep == ~LoopHeld /\ Query

DispatcherStep == ~LoopHeld /\ Dispatcher

NextSteps ==
    \/ SubmitStep
    \/ IngestIteration
    \/ IngestReturn
    \/ QueryStep
    \/ DispatcherStep
    \/ Tick

SpecSteps == Init /\ [][NextSteps]_vars

----------------------------------------------------------------------------
\* Vocabulary of the properties

\* the batches registered in the store, by batch_id
Registered(store) ==
    UNION { { store[i].batches[k].batch_id : k \in 1..Len(store[i].batches) } :
            i \in DOMAIN store }

UnitIn(store, u) == store[u[1]].batches[u[2]]

Pending(store, u) == UnitIn(store, u).status = YET_TO_START
Dispatched(store, u) == UnitIn(store, u).status = TRIGGERED
Completed(store, u) == UnitIn(store, u).status = COMPLETED

\* HIGH over MEDIUM over LOW
HigherTier(p, q) == (p = HIGH /\ q # HIGH) \/ (p = MEDIUM /\ q = LOW)

\* batch ids are handed out in the order the batches are appended to the queue
InsertedBefore(u, v) == u[1] < v[1] \/ (u[1] = v[1] /\ u[2] < v[2])

\* the queue order: tier, then creation timestamp, then insertion order
DispatchBefore(store, u, v) ==
    LET a == UnitIn(store, u)
        b == UnitIn(store, v)
    IN  \/ HigherTier(a.priority, b.priority)
        \/ a.priority = b.priority /\ a.created_time < b.created_time
        \/ a.priority = b.priority /\ a.created_time = b.created_time
              /\ InsertedBefore(u, v)

Queued(q) == { q[i][3] : i \in 1..Len(q) }

\* the dispatcher removes a unit from the queue in this step
Dequeues == Len(batch_queue') < Len(batch_queue)

----------------------------------------------------------------------------
\* C1: whenever the dispatcher removes a unit from the queue, the unit it
\* removes (and marks Dispatched) is the minimum of the queued units under
\* (tier rank HIGH < MEDIUM < LOW, creation timestamp, insertion order): no
\* queued unit comes before it, and none that does is left in the queue.
C1_DequeuesMinimum ==
    [][ Dequeues =>
          \E u \in Queued(batch_queue) :
              /\ batch' = u
              /\ Queued(batch_queue') = Queued(batch_queue) \ {u}
              /\ Len(batch_queue') = Len(batch_queue) - 1
              /\ \A v \in Queued(batch_queue) :
                    ~DispatchBefore(ingestion_store, v, u)
              /\ \A v \in Queued(batch_queue') :
                    ~DispatchBefore(ingestion_store, v, u) ]_vars

\* a unit was dequeued ahead of a unit that had entered the queue before it
C1_Witness ==
    /\ batch # NoBatch
    /\ Dispatched(ingestion_store, batch)
    /\ \E v \in Queued(batch_queue) : InsertedBefore(v, batch)

\* C2: when a unit v leaves Pending, every registered unit of a strictly
\* higher tier is already Completed; so of two units queued at the same
\* moment the one of the higher tier is Completed before the other leaves
\* Pending, whichever was submitted first.
C2_HigherTierCompletesFirst ==
    [][ \A v \in Registered(ingestion_store) :
          (Pending(ingestion_store, v) /\ ~Pending(ingestion_store', v)) =>
              \A u \in Registered(ingestion_store) :
                  HigherTier(UnitIn(ingestion_store, u).priority,
                             UnitIn(ingestion_store, v).priority)
                  => Completed(ingestion_store, u) ]_vars

\* a unit submitted first has left Pending after a unit of a higher tier,
\* submitted later while the first was still queued, was Completed
C2_Witness ==
    \E u, v \in Registered(ingestion_store) :
        /\ v[1] < u[1]
        /\ HigherTier(UnitIn(ingestion_store, u).priority,
                      UnitIn(ingestion_store, v).priority)
        /\ Completed(ingestion_store, u)
        /\ Dispatched(ingestion_store, v)
        /\ UnitIn(ingestion_store, u).created_time < dispatched_at

\* C3: for every registered submission status returns "yet_to_start" iff every
\* unit is Pending, "completed" iff every unit is Completed and "triggered"
\* in every other case, and the unit states it returns are the units' states.
C3_AggregateStatus ==
    \A id \in DOMAIN ingestion_store :
        LET reply == StatusReply(id)
            units == ingestion_store[id].batches
            allPending == \A k \in 1..Len(units) : units[k].status = YET_TO_START
            allCompleted == \A k \in 1..Len(units) : units[k].status = COMPLETED
        IN  /\ reply.code = OK
            /\ reply.status \in {"yet_to_start", "triggered", "completed"}
            /\ (reply.status = "yet_to_start") <=> allPending
            /\ (reply.status = "completed") <=> allCompleted
            /\ (reply.status = "triggered") <=> (~allPending /\ ~allCompleted)
            /\ Len(reply.batches) = Len(units)
            /\ \A k \in 1..Len(units) :
                  /\ reply.batches[k].batch_id = units[k].batch_id
                  /\ reply.batches[k].status = units[k].status

\* a submission with one unit Completed and another still Pending is reported
\* "triggered", while another submission is reported "yet_to_start"
C3_Witness ==
    /\ \E id \in DOMAIN ingestion_store :
          /\ StatusReply(id).status = "triggered"
          /\ \E k \in 1..Len(ingestion_store[id].batches) :
                ingestion_store[id].batches[k].status = COMPLETED
          /\ \E k \in 1..Len(ingestion_store[id].batches) :
                ingestion_store[id].batches[k].status = YET_TO_START
    /\ \E id \in DOMAIN ingestion_store :
          StatusReply(id).status = "yet_to_start"

----------------------------------------------------------------------------
\* the identifier lists ingest rejects, as the interface states them
OutOfRange(x) == x < 1 \/ x > 1000000007
Rejected(ids) == ids = <<>> \/ \E i \in 1..Len(ids) : OutOfRange(ids[i])

RECURSIVE Concat(_)
Concat(bs) == IF bs = <<>> THEN <<>> ELSE Head(bs).ids \o Concat(Tail(bs))

\* this step registers a new submission
Registers == Len(ingestion_store') = Len(ingestion_store) + 1

\* C4: an accepted submission of n identifiers gets ceil(n / 3) units, each
\* of 1 to 3 identifiers and all but the last of exactly 3, whose identifier
\* lists concatenated in unit order are the submitted list; and no later step
\* changes the units' identifier lists or their number.
C4_Partition ==
    [][ /\ Registers =>
              \A ids \in AnyIds, priority \in Priority :
                  ingest(ids, priority) =>
                      LET bs == ingestion_store'[Len(ingestion_store')].batches
                          n == Len(ids)
                      IN  /\ 3 * (Len(bs) - 1) < n /\ n <= 3 * Len(bs)
                          /\ \A k \in 1..Len(bs) :
                                /\ 1 <= Len(bs[k].ids) /\ Len(bs[k].ids) <= 3
                                /\ k < Len(bs) => Len(bs[k].ids) = 3
                          /\ Concat(bs) = ids
        /\ \A id \in DOMAIN ingestion_store :
              /\ id \in DOMAIN ingestion_store'
              /\ Len(ingestion_store'[id].batches) =
                    Len(ingestion_store[id].batches)
              /\ \A k \in 1..Len(ingestion_store[id].batches) :
                    ingestion_store'[id].batches[k].ids =
                        ingestion_store[id].batches[k].ids ]_vars

\* a submission of two unequal identifiers in two units, the second unit
\* shorter than the first, after the dispatcher has completed its first unit
C4_Witness ==
    \E id \in DOMAIN ingestion_store :
        LET bs == ingestion_store[id].batches
        IN  /\ Len(bs) = 2
            /\ Len(bs[1].ids) = BATCH_SIZE
            /\ Len(bs[2].ids) < BATCH_SIZE
            /\ bs[1].ids[1] # bs[1].ids[2]
            /\ bs[1].status = COMPLETED

\* C5: a dispatch (the dequeue of line 132) begins at least
\* RATE_LIMIT_SECONDS after the dispatch before it began.
C5_RateLimit ==
    [][ (Dequeues /\ dispatched_at # NoTime) =>
            /\ dispatched_at' = now
            /\ dispatched_at' - dispatched_at >= 5 ]_vars

\* a second dispatch has begun, later than the rate limit alone requires
C5_Witness ==
    /\ pc = "process_sleep"
    /\ Dispatched(ingestion_store, batch)
    /\ \E u \in Registered(ingestion_store) : Completed(ingestion_store, u)
    /\ dispatched_at > last_processed + RATE_LIMIT_SECONDS

\* C6: a step changes a unit's state only from Pending to Dispatched or from
\* Dispatched to Completed.
C6_MonotoneUnitState ==
    [][ \A u \in Registered(ingestion_store) :
          LET old == UnitIn(ingestion_store, u).status
              new == UnitIn(ingestion_store', u).status
          IN  \/ new = old
              \/ old = "yet_to_start" /\ new = "triggered"
              \/ old = "triggered" /\ new = "completed" ]_vars

\* both transitions have happened, and a unit is still Pending
C6_Witness ==
    /\ \E u \in Registered(ingestion_store) : Completed(ingestion_store, u)
    /\ \E u \in Registered(ingestion_store) : Dispatched(ingestion_store, u)
    /\ \E u \in Registered(ingestion_store) : Pending(ingestion_store, u)

\* what ingest answers, for every list of AnyIds
RejectsAsStated ==
    \A ids \in AnyIds :
        /\ ClientFault(IngestReply(ids).code) <=> Rejected(ids)
        /\ ~ServerFault(IngestReply(ids).code)
        /\ Rejected(ids) => IngestReply(ids).ingestion_id = NoId
        /\ ~Rejected(ids) =>
              /\ IngestReply(ids).code = OK
              /\ IngestReply(ids).ingestion_id # NoId

\* C7: ingest answers with a client fault exactly for the empty list and for
\* lists with an identifier outside [1, 10^9+7]; a rejection carries no
\* ingestion id, and a rejected request leaves the store and the queue as
\* they were: a step that registers a submission or enqueues a unit is not
\* the handling of a rejected request.  The answers are examined in every
\* state in which a submission is about to be registered.
C7_Rejection ==
    [][ (Registers \/ Len(batch_queue') > Len(batch_queue)) =>
            /\ RejectsAsStated
            /\ \A ids \in AnyIds, priority \in Priority :
                  ingest(ids, priority) => ~Rejected(ids) ]_vars

\* with a submission registered and queued, a list with a valid first batch
\* and an out-of-range identifier after it is rejected, and so are 0 and
\* 10^9+8, while 1 and 10^9+7 are accepted
C7_Witness ==
    /\ ingestion_store # <<>>
    /\ batch_queue # <<>>
    /\ \E ids \in AnyIds :
          /\ Len(ids) > BATCH_SIZE
          /\ \A i \in 1..BATCH_SIZE : ~OutOfRange(ids[i])
          /\ ClientFault(IngestReply(ids).code)
    /\ ClientFault(IngestReply(<<0>>).code)
    /\ ClientFault(IngestReply(<<1000000008>>).code)
    /\ IngestReply(<<1>>).code = OK
    /\ IngestReply(<<1000000007>>).code = OK

\* C8: status answers not-found for an id until a successful ingest returns
\* that id, and from then on never answers not-found for it.  (The answer is
\* computed from the store alone, so only steps that change the store are
\* examined.)
C8_NotFound ==
    /\ \A id \in QueryIds : StatusReply(id).code = 404
    /\ [][ ingestion_store' # ingestion_store =>
            /\ \A id \in QueryIds :
                  LET before == StatusReplyIn(ingestion_store, id).code
                      after == StatusReplyIn(ingestion_store', id).code
                  IN  /\ before # 404 => after # 404
                      /\ (before = 404 /\ after # 404) =>
                            \E ids \in CountingIds, priority \in Priority :
                                /\ ingest(ids, priority)
                                /\ IngestReply(ids).code = OK
                                /\ IngestReply(ids).ingestion_id = id
            /\ Registers =>
                  \A ids \in CountingIds, priority \in Priority :
                      ingest(ids, priority) =>
                          /\ IngestReply(ids).code = OK
                          /\ StatusReplyIn(ingestion_store,
                                           IngestReply(ids).ingestion_id).code = 404
                          /\ StatusReplyIn(ingestion_store',
                                           IngestReply(ids).ingestion_id).code # 404
          ]_vars

\* a submission whose units are all Completed is still found, and an id no
\* ingest has returned is not
C8_Witness ==
    /\ \E id \in DOMAIN ingestion_store :
          /\ StatusReply(id).code = OK
          /\ StatusReply(id).status = COMPLETED
    /\ \E id \in QueryIds : StatusReply(id).code = NOT_FOUND

\* C9: a status request, found or not, leaves the store, the queue and
\* last_processed as they were; its answer is computed from the store alone
\* (StatusReplyIn), so the same request made again at once is answered the
\* same.
C9_StatusChangesNothing ==
    [][ (\E id \in QueryIds : status(id)) =>
            UNCHANGED <<ingestion_store, batch_queue, last_processed>> ]_vars

\* status is asked about a submission that is under way, with units queued
\* and a batch already processed, and about an unknown id
C9_Witness ==
    /\ \E id \in QueryIds : StatusReply(id).status = TRIGGERED
    /\ \E id \in QueryIds : StatusReply(id).code = NOT_FOUND
    /\ batch_queue # <<>>
    /\ last_processed # NoTime

\* C10: at most one unit is Dispatched at a time (a dequeue marks its unit
\* Dispatched in the same step, so none happens while a unit is Dispatched).
C10_OneInFlight ==
    Cardinality({ u \in Registered(ingestion_store) :
                    Dispatched(ingestion_store, u) }) <= 1

\* one unit is Dispatched while another is Completed and a third is queued
C10_Witness ==
    /\ \E u \in Registered(ingestion_store) : Dispatched(ingestion_store, u)
    /\ \E u \in Registered(ingestion_store) : Completed(ingestion_store, u)
    /\ batch_queue # <<>>

----------------------------------------------------------------------------
\* the number of entries of the queue q that refer to the unit u
Entries(q, u) == Cardinality({ i \in 1..Len(q) : q[i][3] = u })

\* the queue q holds the Pending units of store once each and nothing else
QueueMirrorsStore(store, q) ==
    /\ Queued(q) \subseteq Registered(store)
    /\ \A u \in Registered(store) :
          Entries(q, u) = IF Pending(store, u) THEN 1 ELSE 0

\* C11: in every state between two steps each registered unit has exactly one
\* queue entry if it is Pending and none if it is Dispatched or Completed, and
\* the queue holds nothing else; and a dequeue takes a unit that was Pending
\* and queued and leaves it not Pending and not queued (with C6, a unit is
\* therefore dequeued at most once).  Only steps that change the store or the
\* queue are examined.
C11_QueueMirrorsStore ==
    /\ QueueMirrorsStore(ingestion_store, batch_queue)
    /\ [][ <<ingestion_store, batch_queue>>' # <<ingestion_store, batch_queue>> =>
             /\ QueueMirrorsStore(ingestion_store', batch_queue')
             /\ Dequeues =>
                   /\ Pending(ingestion_store, batch')
                   /\ Entries(batch_queue, batch') = 1
                   /\ ~Pending(ingestion_store', batch')
                   /\ Entries(batch_queue', batch') = 0 ]_vars

\* two units of one submission are out of the queue, one Completed and one
\* Dispatched, while a unit of another submission waits in the queue
C11_Witness ==
    \E u, v \in Registered(ingestion_store), w \in Queued(batch_queue) :
        /\ u[1] = v[1] /\ w[1] # u[1]
        /\ Completed(ingestion_store, u) /\ Entries(batch_queue, u) = 0
        /\ Dispatched(ingestion_store, v) /\ Entries(batch_queue, v) = 0
        /\ Pending(ingestion_store, w) /\ Entries(batch_queue, w) = 1

\* C12: no step of the dispatcher and no status request can run in a state
\* where the queue holds a unit whose submission is not in the store with
\* that unit among its units; so the lookup of line 138 finds the submission
\* of whatever the dispatcher dequeues.
C12_AtomicCreation ==
    (ENABLED QueryStep \/ ENABLED DispatcherStep) =>
        \A i \in 1..Len(batch_queue) :
            /\ batch_queue[i][3][1] \in DOMAIN ingestion_store
            /\ batch_queue[i][3] \in Registered(ingestion_store)

\* ingest is between the first and the second of its two units: the first is
\* queued and its submission is not in the store, the dispatcher's sleep is
\* over and the dispatcher is not resumed
C12_Witness ==
    /\ Len(ingest_call.batches) = 1
    /\ NumChunks(ingest_call.ids) = 2
    /\ ingest_call.batches[1].batch_id \in Queued(batch_queue)
    /\ ingest_call.ingestion_id \notin DOMAIN ingestion_store
    /\ pc = "empty_sleep" /\ now >= wake
    /\ ~ENABLED DispatcherStep

\* C13: the "status" held in a store entry equals the aggregate of the
\* current states of the entry's units under the three-way rule.
C13_StoredStatusInSync ==
    \A id \in DOMAIN ingestion_store :
        ingestion_store[id].status = StatusReply(id).status

\* the dispatcher comes back from the processing of line 145 in this step
Completes == pc = "process_sleep" /\ pc' # "process_sleep"

\* C14 as stated: when a cycle completes, last_processed becomes the time at
\* which the cycle's unit was dequeued; and a dispatch that follows a rate
\* wait that ended on time begins exactly RATE_LIMIT_SECONDS after the
\* dispatch before it began.
C14_ReferenceIsCycleStart ==
    [][ /\ Completes => last_processed' = dispatched_at
        /\ (Dequeues /\ pc = "rate_sleep" /\ now = wake) =>
              dispatched_at' = dispatched_at + RATE_LIMIT_SECONDS ]_vars

\* C14 as amended: when a cycle completes, last_processed becomes the time at
\* which processing finished, PROCESS_DELAY or more after the unit was
\* dequeued; the next dispatch begins no earlier than RATE_LIMIT_SECONDS
\* after that time, exactly then if the rate wait ends on time and the queue
\* is not empty, and so RATE_LIMIT_SECONDS + PROCESS_DELAY or more after the
\* dispatch before it began.
C14_ReferenceIsCompletion ==
    [][ /\ Completes =>
              /\ last_processed' = now
              /\ last_processed' >= dispatched_at + PROCESS_DELAY
        /\ (Dequeues /\ last_processed # NoTime) =>
              /\ dispatched_at' >= last_processed + RATE_LIMIT_SECONDS
              /\ dispatched_at' >=
                    dispatched_at + RATE_LIMIT_SECONDS + PROCESS_DELAY
        /\ (Dequeues /\ pc = "rate_sleep" /\ now = wake) =>
              dispatched_at' = last_processed + RATE_LIMIT_SECONDS ]_vars

\* a second dispatch has begun exactly RATE_LIMIT_SECONDS after the first
\* unit was completed
C14_Witness ==
    /\ pc = "process_sleep"
    /\ last_processed # NoTime
    /\ dispatched_at = last_processed + RATE_LIMIT_SECONDS
    /\ \E u \in Registered(ingestion_store) : Completed(ingestion_store, u)

\* a step of process_batches
DispatcherMoves == <<pc, wake>>' # <<pc, wake>>

\* process_batches reaches the test of line 123 in this step and the queue
\* is empty
FindsQueueEmpty ==
    /\ DispatcherMoves
    /\ batch_queue = <<>>
    /\ pc' # "rate_sleep"

\* C15: a cycle that finds the queue empty leaves the queue, the store (every
\* unit's state), last_processed and the batch in hand as they were, removes
\* nothing, and sleeps EMPTY_BACKOFF before the loop restarts; a dequeue
\* happens only from a non-empty queue; and when the loop restarts from that
\* sleep with a unit in the queue, the sleep's deadline is at most
\* EMPTY_BACKOFF after the unit was submitted and the unit is dequeued in
\* that very step, with no rate-limit wait.
C15_EmptyCycle ==
    [][ /\ FindsQueueEmpty =>
              /\ pc' = "empty_sleep"
              /\ wake' = now + EMPTY_BACKOFF
              /\ UNCHANGED <<ingestion_store, batch_queue, last_processed,
                             batch, dispatched_at>>
        /\ Dequeues => batch_queue # <<>>
        /\ (DispatcherMoves /\ pc = "empty_sleep" /\ batch_queue # <<>>) =>
              /\ Dequeues
              /\ pc' = "process_sleep"
              /\ dispatched_at' = now
              /\ \A i \in 1..Len(batch_queue) :
                    /\ batch_queue[i][2] >= last_processed + RATE_LIMIT_SECONDS
                    /\ wake <= batch_queue[i][2] + EMPTY_BACKOFF ]_vars

\* after a first unit was completed and the rate-limit interval had passed
\* with the queue empty, a second unit was submitted and has been dequeued
\* within one backoff of its submission
C15_Witness ==
    /\ pc = "process_sleep"
    /\ last_processed # NoTime
    /\ UnitIn(ingestion_store, batch).created_time >
          last_processed + RATE_LIMIT_SECONDS
    /\ dispatched_at <=
          UnitIn(ingestion_store, batch).created_time + EMPTY_BACKOFF

\* every registered unit is Completed, every submission is reported
\* "completed" and the queue is empty
AllDone ==
    /\ batch_queue = <<>>
    /\ \A u \in Registered(ingestion_store) : Completed(ingestion_store, u)
    /\ \A id \in DOMAIN ingestion_store : StatusReply(id).status = "completed"

\* C16: with the dispatcher resumed whenever its sleep is over, time passing
\* and submissions arriving only within the submission window, from some
\* moment on every accepted unit is Completed, every submission is reported
\* "completed" and the queue is empty, for good; and the dispatcher is then
\* still in its loop, asleep on the empty queue.
C16_AllComplete ==
    <>[](AllDone /\ pc = "empty_sleep")

\* the last of four units of two submissions is Completed and the dispatcher
\* has gone back to sleep on the empty queue
C16_Witness ==
    /\ AllDone
    /\ Cardinality(Registered(ingestion_store)) = MaxUnits
    /\ pc = "empty_sleep"

----------------------------------------------------------------------------
\* the ranks of the tiers strictly above the tier of rank r
HigherRanks(r) == { h \in 1..3 : h < r }

\* the position in the queue q of the entry of unit u
Pos(q, u) == CHOOSE i \in 1..Len(q) : q[i][3] = u

\* a unit of a tier of rank in ranks is put in the queue in this step
Arrives(ranks) ==
    /\ Len(batch_queue') > Len(batch_queue)
    /\ \E i \in (Len(batch_queue) + 1)..Len(batch_queue') :
          batch_queue'[i][1] \in ranks

\* the k-th unit of the submission stored at id is Pending and of rank r
PendingAt(id, k, r) ==
    /\ id \in DOMAIN ingestion_store
    /\ k \in 1..Len(ingestion_store[id].batches)
    /\ ingestion_store[id].batches[k].status = YET_TO_START
    /\ priority_map(ingestion_store[id].batches[k].priority) = r

\* arrivals go to the end of the queue, and no step changes the order in
\* which two units of one tier stand in it
KeepsArrivalOrder ==
    /\ Len(batch_queue') > Len(batch_queue) =>
          SubSeq(batch_queue', 1, Len(batch_queue)) = batch_queue
    /\ \A u, v \in Queued(batch_queue) \cap Queued(batch_queue') :
          (batch_queue[Pos(batch_queue, u)][1] =
               batch_queue[Pos(batch_queue, v)][1]
           /\ Pos(batch_queue, u) < Pos(batch_queue, v))
          => Pos(batch_queue', u) < Pos(batch_queue', v)

\* the unit dequeued in this step stood before every queued unit of its own
\* tier, and no unit of a higher tier was queued
TakesFirstOfBestTier ==
    LET i == Pos(batch_queue, batch')
    IN  \A j \in 1..Len(batch_queue) :
            \/ j = i
            \/ batch_queue[j][1] > batch_queue[i][1]
            \/ batch_queue[j][1] = batch_queue[i][1] /\ j > i

\* the dispatcher dequeues a unit of the tier of rank r in this step
DequeuesRank(r) ==
    /\ Dequeues
    /\ batch_queue[Pos(batch_queue, batch')][1] = r

\* no unit of the tier of rank r is in the queue
TierEmpty(r) == \A i \in 1..Len(batch_queue) : batch_queue[i][1] # r

\* C17: units of one tier leave the queue in the order of their arrival (a
\* later arrival of the same tier always leaves after), and with the
\* dispatcher scheduled fairly a Pending unit of a tier is eventually
\* dispatched, however long submissions of that tier and of lower tiers keep
\* arriving, provided the arrivals of units of higher tiers come to an end:
\* then the tier either is served again and again, which with the arrival
\* order reaches every unit waiting in it, or is empty for good.
C17_EqualPriorityNotStarved ==
    /\ [][ /\ batch_queue' # batch_queue => KeepsArrivalOrder
           /\ Dequeues => TakesFirstOfBestTier ]_vars
    /\ \A r \in 1..3 :
          <>[][~Arrives(HigherRanks(r))]_vars =>
              ([]<><<DequeuesRank(r)>>_vars \/ <>[]TierEmpty(r))

\* a unit is dispatched while a unit of its own tier, of another submission,
\* waits behind it in the queue, and the store is full
C17_Witness ==
    /\ Len(ingestion_store) = MaxIngestions
    /\ pc = "process_sleep"
    /\ Dispatched(ingestion_store, batch)
    /\ \E v \in Queued(batch_queue) :
          /\ v[1] # batch[1]
          /\ UnitIn(ingestion_store, v).priority =
                UnitIn(ingestion_store, batch).priority

----------------------------------------------------------------------------
\* the k-th unit of the submission stored at id is Pending
PendingUnit(id, k) == \E r \in 1..3 : PendingAt(id, k, r)

\* C18 as stated: with the dispatcher scheduled fairly every Pending unit is
\* eventually dispatched, whatever submissions arrive after it.
C18_NeverStarved ==
    \A id \in 1..MaxIngestions, k \in 1..MaxUnits :
        PendingUnit(id, k) ~> ~PendingUnit(id, k)

\* the unit dequeued in this step is of the highest tier present in the queue
TakesBestTier ==
    \A j \in 1..Len(batch_queue) :
        batch_queue[j][1] >= batch_queue[Pos(batch_queue, batch')][1]

\* C18: priority is strict and takes no account of how long a unit has
\* waited. No unit is dequeued while a unit of a higher tier is queued, so
\* arrivals of higher tiers that never leave the queue free of them keep a
\* Pending unit waiting for ever; only the highest tier is served whatever
\* arrives: it is dequeued from again and again, or is empty for good.
C18_StrictPriority ==
    /\ [][Dequeues => TakesBestTier]_vars
    /\ ([]<><<DequeuesRank(priority_map(HIGH))>>_vars
           \/ <>[]TierEmpty(priority_map(HIGH)))

\* a unit is dispatched although a unit of a lower tier, submitted before it,
\* is still waiting in the queue, and the store is full
C18_Witness ==
    /\ Len(ingestion_store) = MaxIngestions
    /\ pc = "process_sleep"
    /\ Dispatched(ingestion_store, batch)
    /\ \E v \in Queued(batch_queue) :
          /\ Pending(ingestion_store, v)
          /\ priority_map(UnitIn(ingestion_store, v).priority) >
                priority_map(UnitIn(ingestion_store, batch).priority)
          /\ UnitIn(ingestion_store, v).created_time <
                UnitIn(ingestion_store, batch).created_time

----------------------------------------------------------------------------
\* every unit whose processing failed is Dispatched and out of the queue, and
\* its submission is reported "triggered"
FailedStayDispatched ==
    \A u \in failed :
        /\ Dispatched(ingestion_store, u)
        /\ u \notin Queued(batch_queue)
        /\ StatusReply(u[1]).status = "triggered"

\* the step in which a processing fails changes neither the store nor the
\* queue nor the reference time of the rate wait, and sends the dispatcher
\* to its backoff
FailureTouchesNothing ==
    /\ ingestion_store' = ingestion_store
    /\ batch_queue' = batch_queue
    /\ last_processed' = last_processed
    /\ pc' = "error_sleep"
    /\ wake' = now + ERROR_BACKOFF

\* the queue is empty and every registered unit is Completed, or is
\* Dispatched and one of those whose processing failed
AllDoneOrFailed ==
    /\ batch_queue = <<>>
    /\ \A u \in Registered(ingestion_store) :
          \/ Completed(ingestion_store, u)
          \/ u \in failed /\ Dispatched(ingestion_store, u)

\* C19: a unit whose processing failed stays Dispatched for good, is never
\* put back in the queue and never becomes Completed, and its submission is
\* reported "triggered"; the failure changes the state of no unit; and the
\* dispatcher goes on after the backoff: with the dispatcher resumed whenever
\* its sleep is over, every other accepted unit is dequeued and Completed and
\* the dispatcher ends up asleep on the empty queue, still in its loop.
C19_FailureContained ==
    /\ []FailedStayDispatched
    /\ [][failed' # failed => FailureTouchesNothing]_vars
    /\ <>[](AllDoneOrFailed /\ pc = "empty_sleep")

\* the first unit of a submission failed, and after the backoff the
\* dispatcher has dequeued and Completed the second; the submission is
\* reported "triggered"
C19_Witness ==
    \E id \in DOMAIN ingestion_store :
        /\ Len(ingestion_store[id].batches) = 2
        /\ <<id, 1>> \in failed
        /\ Completed(ingestion_store, <<id, 2>>)
        /\ StatusReply(id).status = "triggered"
        /\ AllDoneOrFailed
        /\ pc = "empty_sleep"

----------------------------------------------------------------------------
\* the place of an aggregate status in the order "yet_to_start",
\* "triggered", "completed"
StatusRank(s) ==
    CASE s = YET_TO_START -> 1
      [] s = TRIGGERED -> 2
      [] s = COMPLETED -> 3

\* what a poller is answered for id before and after this step: found both
\* times, the aggregate not earlier in the order, the same units with the
\* same identifiers
AnswerMovesForward(id) ==
    LET old == StatusReplyIn(ingestion_store, id)
        new == StatusReplyIn(ingestion_store', id)
    IN  /\ new.code = OK
        /\ StatusRank(old.status) <= StatusRank(new.status)
        /\ Len(new.batches) = Len(old.batches)
        /\ \A k \in 1..Len(old.batches) :
              /\ new.batches[k].batch_id = old.batches[k].batch_id
              /\ new.batches[k].ids = old.batches[k].ids

\* C20: no step, of a submission, a query or the dispatcher, moves the
\* answer of status for a stored submission back in the order
\* "yet_to_start", "triggered", "completed", so that successive polls follow
\* that order and "completed" once returned is returned ever after; and no
\* step adds a unit to a stored submission or removes one.
C20_AggregateNeverRegresses ==
    [][ ingestion_store' # ingestion_store =>
            \A id \in DOMAIN ingestion_store : AnswerMovesForward(id) ]_vars

\* between two cycles a submission of two units is reported "triggered" with
\* no unit in flight: its first unit is Completed, its second still Pending
C20_Witness ==
    \E id \in DOMAIN ingestion_store :
        /\ pc = "rate_sleep"
        /\ Len(ingestion_store[id].batches) = 2
        /\ Completed(ingestion_store, <<id, 1>>)
        /\ Pending(ingestion_store, <<id, 2>>)
        /\ StatusReply(id).status = TRIGGERED

====
